---- MODULE Spec2Model ----
(***************************************************************************)
(* Point ledger and window aggregation of the recycling app:               *)
(*   - CounterStore      users/{uid} {points, itemsRecycled}               *)
(*                       (PhotoAnalysis.tsx updateUserPoints)              *)
(*   - SnapshotStore     users/{uid}/dailyPoints/{YYYY-MM-DD}              *)
(*                       (firebase/db.ts saveDailyPoints, getUserWeeklyPoints,*)
(*                        weeklyAggregate.js getDailyPoint)                *)
(*   - WindowDeltaEngine PointsLeaderboard.tsx chartData (per-day gains)   *)
(*   - LeaderboardBuilder createMonthlyLeaderboard.js createMonthly and    *)
(*                       weeklyAggregate.js aggregateWeek                  *)
(*   - BackfillTool      backfillDailyPoints.js backfill                   *)
(*   - Triggers          POST /aggregate-weekly, POST /aggregate-monthly   *)
(*   - LeaderboardReader PointsLeaderboard.tsx useMonthlyLeaderboard       *)
(*   - ScanHistory       users/{uid}/scans (PhotoAnalysis.tsx              *)
(*                       saveScanRecord)                                   *)
(*                                                                         *)
(* Calendar days are numbered 1, 2, 3, ... (the YYYY-MM-DD keys of the     *)
(* source compare lexicographically exactly as these numbers compare).     *)
(***************************************************************************)
EXTENDS Integers, Sequences, FiniteSets, TLC

\* ------------------------------------------------------------------ bounds
NumUsers == 2        \* accounts in the users collection
NumAwards == 2       \* concurrent updateUserPoints calls
MaxRuns == 2         \* builder invocations in one behaviour
MaxSnaps == 2        \* dailyPoints documents in the store drawn by Init
MaxSaves == 2        \* saveDailyPoints calls in one behaviour
TicksPerDay == 2     \* instants of the clock in one UTC day
MaxExtraDays == 1    \* extraDays of a backfill run (the window has extraDays + 1 days)
NumBatchAccounts == 150  \* accounts of the large users collection of one backfill

\* ------------------------------------------------------- program constants
PointsRecyclable == 10     \* PhotoAnalysis.tsx:284  parsed.recyclable ? 10 : 5
PointsLearning == 5        \* PhotoAnalysis.tsx:284
DefaultTopN == 10          \* createMonthly(monthId, topN = 10), aggregateWeek topN = 10
ChartDays == 7             \* PointsLeaderboard.tsx:686  const days = 7
FakeBase == 800            \* part_009:50  Math.floor(800 + Math.random() * 4200)
FakeSpan == 4200           \* part_009:50
FakeItems == 200           \* part_009:51  Math.floor(Math.random()*200)
WritesPerBatch == 450      \* part_007:77  const writesPerBatch = 450
MinBackdrop == 50          \* part_007:96  Math.max(50, Math.floor(daysCount * 30))
BackdropPerDay == 30       \* part_007:96
MaxIncrement == 50         \* part_007:103 Math.floor(Math.random() * 51)
MaxItemVariation == 4      \* part_007:118 Math.floor(Math.random() * 5)

Uids == 1..NumUsers

\* The calendar of the model: four days, two periods of two days each. The
\* monthly builder and the weekly builder are both run over these periods.
Days == 1..4
Periods == {1, 2}
PeriodStart(p) == 2 * p - 1
PeriodEnd(p) == 2 * p

\* An absent document (snap.exists == false, query result empty).
NoDoc == [absent |-> TRUE]
Exists(d) == "absent" \notin DOMAIN d

VARIABLES
  users,         \* users/{uid}: [points, itemsRecycled]
  dailyPoints,   \* users/{uid}/dailyPoints/{day}: document or NoDoc
  listOrder,     \* the order in which the store lists the users collection
  leaderboards,  \* leaderboards/{kind}/snapshots/{period}: document or NoDoc
  userWeekly,    \* users/{uid}/weekly/{period}: document or NoDoc
  now,           \* the store's clock (serverTimestamp)
  ops,           \* the updateUserPoints calls in flight
  before,        \* history: the counters before any award was applied
  run,           \* the builder invocation in progress
  runsLeft,      \* builder invocations still allowed in this behaviour
  hist,          \* history: per leaderboard slot, the writes committed
  lastSave,      \* history: the latest saveDailyPoints call
  bf,            \* the backfill invocation in progress
  call,          \* the latest request to an aggregation trigger
  adminToken,    \* process.env.ADMIN_TOKEN of the backend
  reader,        \* the useMonthlyLeaderboard effect of the client
  chart,         \* the weekly chart effect of the client (load)
  other,         \* a second builder invocation, while it is not the one taking a step
  scans,         \* users/{uid}/scans: the stored scan records
  scanOps        \* the saveScanRecord calls in flight

restVars == <<reader, chart, other, scans, scanOps>>
auxVars == <<bf, call, adminToken, restVars>>

vars == <<users, dailyPoints, listOrder, leaderboards, userWeekly, now,
          ops, before, run, runsLeft, hist, lastSave, auxVars>>

storeVars == <<users, dailyPoints, listOrder, leaderboards, userWeekly, now>>

Kinds == {"monthly", "weekly"}
Slots == Kinds \X Periods

\* ------------------------------------------------------------ small helpers
RECURSIVE SetSum(_, _)
SetSum(S, f) ==
  IF S = {} THEN 0
  ELSE LET x == CHOOSE y \in S : TRUE IN f[x] + SetSum(S \ {x}, f)

Last(s) == s[Len(s)]

\* All orderings of the accounts (the store may list them in any of these).
Perms == {s \in [1..NumUsers -> Uids] : \A i, j \in 1..NumUsers : i # j => s[i] # s[j]}

EmptyDaily == [u \in Uids |-> [d \in Days |-> NoDoc]]
EmptyBoards == [s \in Slots |-> NoDoc]
EmptyWeekly == [u \in Uids |-> [p \in Periods |-> NoDoc]]
IdleRun ==
  [pc |-> "idle", kind |-> "monthly", period |-> 1, topN |-> 0, fake |-> FALSE,
   docs |-> <<>>, idx |-> 0, candidates |-> <<>>, top |-> <<>>, failedLookup |-> 0,
   boardsAtStart |-> EmptyBoards, weeklyAtStart |-> EmptyWeekly]
NoSave == [n |-> 0, uid |-> 0, instant |-> 0, points |-> 0, items |-> 0, prev |-> NoDoc]
AscendingOrder == [i \in 1..NumUsers |-> i]

\* No backfill in progress, no request received, ADMIN_TOKEN not set
\* (process.env.ADMIN_TOKEN is undefined).
IdleBackfill ==
  [pc |-> "idle", dateStr |-> 0, daysCount |-> 0, docs |-> <<>>, u |-> 0, i |-> 0,
   startPoints |-> 0, cumulative |-> 0, batch |-> <<>>, writeCount |-> 0, batchCount |-> 0,
   committed |-> <<>>, left |-> 0, runs |-> 0, first |-> <<>>]
Undefined == "undefined"
\* The client effects have not run, no second invocation, no scan recorded.
IdleReader == [pc |-> "idle", month |-> 0, source |-> "none", data |-> <<>>]
NoChart == [op |-> "none", uid |-> 0, days |-> 0, today |-> 0, docs |-> <<>>,
            dates |-> <<>>, data |-> <<>>]
NoScans == [u \in Uids |-> <<>>]
NoScanOps == [o \in 1..NumAwards |-> [pc |-> "idle"]]
InitRest ==
  /\ reader = IdleReader
  /\ chart = NoChart
  /\ other = IdleRun
  /\ scans = NoScans
  /\ scanOps = NoScanOps
NoCall == [n |-> 0, route |-> "none", token |-> Undefined, month |-> Undefined, status |-> 0]
InitAux ==
  /\ bf = IdleBackfill
  /\ call = NoCall
  /\ adminToken = Undefined
  /\ InitRest

(***************************************************************************)
(* CounterStore: updateUserPoints (PhotoAnalysis.tsx 143-166)              *)
(* The client sends updateDoc(userRef, {points: increment(n), ...}); the   *)
(* store applies the increments of one update atomically to the document   *)
(* it holds at that moment. An update that the store rejects is caught and *)
(* only logged (catch block, lines 162-165).                               *)
(***************************************************************************)
IdleOp == [pc |-> "idle"]

\* analyzeWithGemini line 284: pointsEarned = parsed.recyclable ? 10 : 5
PointsEarned(recyclable) == IF recyclable THEN PointsRecyclable ELSE PointsLearning

\* lines 148-158: the update sent to the store
UpdateData(recyclable, pointsToAdd) ==
  [points |-> pointsToAdd, itemsRecycled |-> IF recyclable THEN 1 ELSE 0]

\* updateUserPoints up to the await of updateDoc: the update is in flight
CallUpdateUserPoints(o, u, recyclable) ==
  /\ ops[o].pc = "idle"
  /\ ops' = [ops EXCEPT ![o] = [pc |-> "sent", uid |-> u, recyclable |-> recyclable,
                                 data |-> UpdateData(recyclable, PointsEarned(recyclable))]]
  /\ UNCHANGED <<storeVars, before, run, runsLeft, hist, lastSave, auxVars>>

\* A lost-update variant: the new total is computed from the value the
\* account had when the awards started, and written back whole.
UpdateDocApplyReadModifyWrite(o) ==
  /\ ops[o].pc = "sent"
  /\ users' = [users EXCEPT ![ops[o].uid] =
                 [points |-> before[ops[o].uid].points + ops[o].data.points,
                  itemsRecycled |-> before[ops[o].uid].itemsRecycled + ops[o].data.itemsRecycled]]
  /\ ops' = [ops EXCEPT ![o].pc = "ok"]
  /\ UNCHANGED <<dailyPoints, listOrder, leaderboards, userWeekly, now,
                 before, run, runsLeft, hist, lastSave, auxVars>>

\* line 160: the store applies increment(n) to the current field values
UpdateDocApply(o) ==
  /\ ops[o].pc = "sent"
  /\ users' = [users EXCEPT ![ops[o].uid] =
                 [points |-> @.points + ops[o].data.points,
                  itemsRecycled |-> @.itemsRecycled + ops[o].data.itemsRecycled]]
  /\ ops' = [ops EXCEPT ![o].pc = "ok"]
  /\ UNCHANGED <<dailyPoints, listOrder, leaderboards, userWeekly, now,
                 before, run, runsLeft, hist, lastSave, auxVars>>

\* lines 162-165: updateDoc rejects (store unavailable); the error is caught
UpdateDocReject(o) ==
  /\ ops[o].pc = "sent"
  /\ ops' = [ops EXCEPT ![o].pc = "failed"]
  /\ UNCHANGED <<storeVars, before, run, runsLeft, hist, lastSave, auxVars>>

InitAward ==
  /\ users \in [Uids -> [points : {0, 3}, itemsRecycled : {0}]]
  /\ before = users
  /\ dailyPoints = EmptyDaily
  /\ listOrder = AscendingOrder
  /\ leaderboards = EmptyBoards
  /\ userWeekly = EmptyWeekly
  /\ now = 0
  /\ ops = [o \in 1..NumAwards |-> IdleOp]
  /\ run = IdleRun
  /\ runsLeft = 0
  /\ hist = [s \in Slots |-> <<>>]
  /\ lastSave = NoSave
  /\ InitAux

NextAward ==
  \E o \in 1..NumAwards :
    \/ \E u \in Uids, r \in BOOLEAN : CallUpdateUserPoints(o, u, r)
    \/ UpdateDocApply(o)
    \/ UpdateDocReject(o)

SpecAward == InitAward /\ [][NextAward]_vars

\* The awards the store applied to account u.
Applied(u) == {o \in 1..NumAwards : ops[o].pc = "ok" /\ ops[o].uid = u}
AppliedPoints(u) == SetSum(Applied(u), [o \in 1..NumAwards |-> ops[o].data.points])
AppliedItems(u) == SetSum(Applied(u), [o \in 1..NumAwards |-> ops[o].data.itemsRecycled])

\* C1: no increment is lost. In every interleaving of concurrent
\* updateUserPoints calls, an account's points exceed their value before the
\* awards by exactly the sum of the awards the store applied to it (so a +10
\* and a +5 applied to one account leave it 15 higher, never 10 or 5).
C1_NoLostUpdate ==
  \A u \in Uids :
     /\ users[u].points = before[u].points + AppliedPoints(u)
     /\ users[u].itemsRecycled = before[u].itemsRecycled + AppliedItems(u)

\* A +10 and a +5 on the same account, both applied: the account is 15 higher.
C1_Witness ==
  \E o1, o2 \in 1..NumAwards :
     /\ o1 # o2
     /\ ops[o1].pc = "ok" /\ ops[o2].pc = "ok"
     /\ ops[o1].uid = ops[o2].uid
     /\ ops[o1].data.points = 10 /\ ops[o2].data.points = 5
     /\ users[ops[o1].uid].points = before[ops[o1].uid].points + 15

(***************************************************************************)
(* SnapshotStore documents and the store's write primitives                *)
(***************************************************************************)
\* The document saveDailyPoints and the backfill write (db.ts 30-35).
DailyDoc(day, points, items, at) ==
  [date |-> day, points |-> points, itemsRecycled |-> items, generatedAt |-> at]

\* set(ref, data, {merge: true}): the fields of data replace the fields of
\* the same name; the other fields of the stored document are kept.
SetMerge(old, new) ==
  IF ~Exists(old) THEN new
  ELSE [f \in DOMAIN old \cup DOMAIN new |-> IF f \in DOMAIN new THEN new[f] ELSE old[f]]

\* A merging write where a replacing write is meant.
SetReplaceMerging(old, new) ==
  IF ~Exists(old) THEN new
  ELSE [f \in DOMAIN old \cup DOMAIN new |-> IF f \in DOMAIN new THEN new[f] ELSE old[f]]

\* A write that stores the entries of the new list one by one over the
\* stored list and leaves the stored entries behind them in place.
SetReplaceEntrywise(old, new) ==
  IF ~Exists(old) \/ "top" \notin DOMAIN old \/ "top" \notin DOMAIN new THEN new
  ELSE [new EXCEPT !.top = new.top \o SubSeq(old.top, Len(new.top) + 1, Len(old.top))]

\* set(ref, data, {merge: false}): the stored document becomes data.
SetReplace(old, new) == new

\* weeklyAggregate.js 41-45 getDailyPoint: the document with id dateStr, or null
GetDailyPoint(u, day) == IF day \in Days THEN dailyPoints[u][day] ELSE NoDoc

\* The days on which account u has a snapshot whose date field satisfies P.
SnapDays(u, lo, hi) ==
  {d \in Days : Exists(dailyPoints[u][d])
                /\ dailyPoints[u][d].date >= lo /\ dailyPoints[u][d].date <= hi}

\* orderBy('date', 'desc').limit(1) over the documents of the days in S
LatestOf(u, S) ==
  IF S = {} THEN NoDoc
  ELSE dailyPoints[u][CHOOSE d \in S :
                        \A e \in S : dailyPoints[u][e].date <= dailyPoints[u][d].date]

(***************************************************************************)
(* LeaderboardBuilder: createMonthly (part_009 39-119)                     *)
(***************************************************************************)
\* An incremental variant: the gain is counted from the pointsEnd that the
\* stored snapshot of the month already shows for the account.
MonthlyCandidateSinceStored(udoc, period) ==
  LET uid == udoc.uid
      startStr == PeriodStart(period)
      endStr == PeriodEnd(period)
      stored == leaderboards[<<"monthly", period>>]
      shown == IF Exists(stored)
               THEN {i \in 1..Len(stored.top) :
                       stored.top[i].uid = uid /\ "pointsEnd" \in DOMAIN stored.top[i]}
               ELSE {}
      beforeSnap == LatestOf(uid, SnapDays(uid, 0, startStr - 1))
      pointsStart == IF shown # {} THEN stored.top[CHOOSE i \in shown : TRUE].pointsEnd
                     ELSE IF ~Exists(beforeSnap) THEN 0 ELSE beforeSnap.points
      endSnap == LatestOf(uid, SnapDays(uid, startStr, endStr))
      pointsEnd == IF Exists(endSnap) THEN endSnap.points ELSE udoc.points
      inMonth == SnapDays(uid, startStr, endStr)
      items == SetSum(inMonth, [d \in Days |-> dailyPoints[uid][d].itemsRecycled])
  IN [uid |-> uid, pointsStart |-> pointsStart, pointsEnd |-> pointsEnd,
      pointsGained |-> pointsEnd - pointsStart, itemsRecycled |-> items]

\* part_009 77-110: the candidate of one account. udoc is the account's
\* document as the listing of line 69 returned it.
MonthlyCandidate(udoc, period) ==
  LET uid == udoc.uid
      startStr == PeriodStart(period)
      endStr == PeriodEnd(period)
      \* 78-81: last snapshot before the month
      beforeSnap == LatestOf(uid, SnapDays(uid, 0, startStr - 1))
      pointsStart == IF ~Exists(beforeSnap) THEN 0 ELSE beforeSnap.points
      \* 84-93: last snapshot within the month, else the current counter
      endSnap == LatestOf(uid, SnapDays(uid, startStr, endStr))
      pointsEnd == IF Exists(endSnap) THEN endSnap.points ELSE udoc.points
      \* 98-104: sum of itemsRecycled over the snapshots of the month
      inMonth == SnapDays(uid, startStr, endStr)
      items == SetSum(inMonth, [d \in Days |-> dailyPoints[uid][d].itemsRecycled])
  IN [uid |-> uid, pointsStart |-> pointsStart, pointsEnd |-> pointsEnd,
      pointsGained |-> pointsEnd - pointsStart, itemsRecycled |-> items]

(***************************************************************************)
(* LeaderboardBuilder: aggregateWeek (weeklyAggregate.js 53-132)           *)
(* null is <<>> and a value v is <<v>>.                                    *)
(***************************************************************************)
\* !x of JavaScript for a number-or-null
Falsy(x) == x = <<>> \/ x[1] = 0

\* 72-81: the scan of the days of the week, oldest first
RECURSIVE WeekScan(_, _, _, _)
WeekScan(uid, day, weekEnd, acc) ==
  IF day > weekEnd THEN acc
  ELSE LET dp == GetDailyPoint(uid, day)
           next == IF Exists(dp)
                   THEN [items |-> acc.items + dp.itemsRecycled,
                         pointsAtEnd |-> <<dp.points>>,
                         pointsAtStart |-> IF Falsy(acc.pointsAtStart)
                                           THEN <<dp.points>> ELSE acc.pointsAtStart]
                   ELSE acc
       IN WeekScan(uid, day + 1, weekEnd, next)

\* 65-97: the candidate of one account. user is the account's document as
\* listAllUsers returned it.
WeeklyCandidate(user, period) ==
  LET uid == user.uid
      weekStart == PeriodStart(period)
      weekEnd == PeriodEnd(period)
      scan == WeekScan(uid, weekStart, weekEnd,
                       [items |-> 0, pointsAtEnd |-> <<>>, pointsAtStart |-> <<>>])
      \* 84-86
      pointsAtEnd == IF scan.pointsAtEnd = <<>> THEN user.points ELSE scan.pointsAtEnd[1]
      \* 87-92
      beforeDoc == GetDailyPoint(uid, weekStart - 1)
      pointsAtStart == IF scan.pointsAtStart = <<>>
                       THEN (IF Exists(beforeDoc) THEN beforeDoc.points ELSE 0)
                       ELSE scan.pointsAtStart[1]
  IN [uid |-> uid, pointsStart |-> pointsAtStart, pointsEnd |-> pointsAtEnd,
      pointsGained |-> pointsAtEnd - pointsAtStart, itemsRecycled |-> scan.items]

Candidate(kind, udoc, period) ==
  IF kind = "monthly" THEN MonthlyCandidate(udoc, period) ELSE WeeklyCandidate(udoc, period)

(***************************************************************************)
(* Ranking: candidates.sort((a,b) => b.pointsGained - a.pointsGained),     *)
(* slice(0, topN), rank = idx + 1 (part_009 113-114, weeklyAggregate.js    *)
(* 101-102). Array.prototype.sort is stable: candidates that compare equal *)
(* keep the order in which they were pushed.                               *)
(***************************************************************************)
\* c placed behind every element that does not compare after it
RECURSIVE InsertByGain(_, _)
InsertByGain(c, s) ==
  IF s = <<>> THEN <<c>>
  ELSE IF Head(s).pointsGained >= c.pointsGained
       THEN <<Head(s)>> \o InsertByGain(c, Tail(s))
       ELSE <<c>> \o s

RECURSIVE SortByGainDesc(_)
SortByGainDesc(s) ==
  IF s = <<>> THEN <<>>
  ELSE InsertByGain(Last(s), SortByGainDesc(SubSeq(s, 1, Len(s) - 1)))

\* slice(0, topN) for topN >= 0
Slice(s, topN) == SubSeq(s, 1, IF topN < Len(s) THEN topN ELSE Len(s))

\* A ranking that numbers the entries from 0.
TopEntriesFromZero(candidates, topN) ==
  LET sorted == Slice(SortByGainDesc(candidates), topN)
  IN [idx \in 1..Len(sorted) |->
        [rank |-> idx - 1, uid |-> sorted[idx].uid, pointsGained |-> sorted[idx].pointsGained,
         pointsEnd |-> sorted[idx].pointsEnd, itemsRecycled |-> sorted[idx].itemsRecycled]]

\* A ranking that takes the first topN candidates in listing order.
TopEntriesUnsorted(candidates, topN) ==
  LET sorted == Slice(candidates, topN)
  IN [idx \in 1..Len(sorted) |->
        [rank |-> idx, uid |-> sorted[idx].uid, pointsGained |-> sorted[idx].pointsGained,
         pointsEnd |-> sorted[idx].pointsEnd, itemsRecycled |-> sorted[idx].itemsRecycled]]

\* part_009 113-114, weeklyAggregate.js 101-102 (name and initials, which
\* are display text, are left out of the entries)
TopEntries(candidates, topN) ==
  LET sorted == Slice(SortByGainDesc(candidates), topN)
  IN [idx \in 1..Len(sorted) |->
        [rank |-> idx, uid |-> sorted[idx].uid, pointsGained |-> sorted[idx].pointsGained,
         pointsEnd |-> sorted[idx].pointsEnd, itemsRecycled |-> sorted[idx].itemsRecycled]]

\* part_009 44-57: fake mode. Math.random() is a choice of the seed; entry i
\* gets points in 800..4999 and itemsRecycled in 0..199.
FakeSeeds == {0, 1}
FakeUid(i) == 0 - i
FakeTop(topN, seed) ==
  [i \in 1..topN |->
     [rank |-> i, uid |-> FakeUid(i),
      points |-> FakeBase + ((seed * 1700 + i * 900) % FakeSpan),
      itemsRecycled |-> (seed * 70 + i * 30) % FakeItems]]

\* The documents the builders write.
MonthlyBoard(period, top, at) ==
  [month |-> period, startDate |-> PeriodStart(period), endDate |-> PeriodEnd(period),
   generatedAt |-> at, top |-> top]
FakeBoard(period, top, at) == [month |-> period, generatedAt |-> at, top |-> top]
WeeklyBoard(period, top, at) ==
  [week |-> period, startDate |-> PeriodStart(period), endDate |-> PeriodEnd(period),
   generatedAt |-> at, top |-> top]
UserWeeklyDoc(period, c, at) ==
  [week |-> period, startDate |-> PeriodStart(period), endDate |-> PeriodEnd(period),
   pointsStart |-> c.pointsStart, pointsEnd |-> c.pointsEnd,
   pointsGained |-> c.pointsGained, itemsRecycled |-> c.itemsRecycled, generatedAt |-> at]

(***************************************************************************)
(* One builder invocation. run.pc is the await the invocation is at:       *)
(*   "list"  users collection requested (part_009 69, weeklyAggregate 62)  *)
(*   "eval"  in the loop over the listed accounts, run.idx evaluated       *)
(*   "write" ranked in memory, final write requested                       *)
(*   "fake"  fake mode, write not yet requested                            *)
(*   "done" / "failed"  the invocation has returned / has thrown           *)
(***************************************************************************)
TopNs == {1, DefaultTopN}
Running == run.pc \in {"list", "eval", "write", "fake"}

\* The invocation has returned or thrown: its working memory is gone.
Ended(r) == [r EXCEPT !.docs = <<>>, !.candidates = <<>>, !.top = <<>>]

StartRun(kind, period, topN, fake) ==
  /\ ~Running
  /\ runsLeft > 0
  /\ fake => kind = "monthly"
  \* part_009 123 is the only call of createMonthly: createMonthly(monthId)
  /\ kind = "monthly" => topN = DefaultTopN
  /\ runsLeft' = runsLeft - 1
  /\ run' = [IdleRun EXCEPT !.pc = IF fake THEN "fake" ELSE "list",
                            !.kind = kind, !.period = period, !.topN = topN, !.fake = fake,
                            !.boardsAtStart = leaderboards, !.weeklyAtStart = userWeekly]
  /\ UNCHANGED <<storeVars, ops, before, hist, lastSave, auxVars>>

\* part_009 69 / weeklyAggregate.js 34-38, 62: the accounts as the store lists them
ListUsers ==
  /\ run.pc = "list"
  /\ run' = [run EXCEPT !.pc = "eval",
                        !.docs = [i \in 1..NumUsers |->
                                    [uid |-> listOrder[i], points |-> users[listOrder[i]].points]]]
  /\ UNCHANGED <<storeVars, ops, before, runsLeft, hist, lastSave, auxVars>>

\* An iteration that also publishes the candidates gathered so far.
EvaluateAccountPublishing ==
  /\ run.pc = "eval"
  /\ run.idx < Len(run.docs)
  /\ LET c == Candidate(run.kind, run.docs[run.idx + 1], run.period)
         cs == Append(run.candidates, c)
     IN /\ run' = [run EXCEPT !.idx = @ + 1, !.candidates = cs]
        /\ leaderboards' = [leaderboards EXCEPT ![<<run.kind, run.period>>] =
                              IF run.kind = "monthly"
                              THEN MonthlyBoard(run.period, TopEntries(cs, run.topN), now)
                              ELSE WeeklyBoard(run.period, TopEntries(cs, run.topN), now)]
  /\ UNCHANGED <<users, dailyPoints, listOrder, userWeekly, now,
                 ops, before, runsLeft, hist, lastSave, auxVars>>

\* part_009 74-110 / weeklyAggregate.js 65-98: one iteration of the loop
EvaluateAccount ==
  /\ run.pc = "eval"
  /\ run.idx < Len(run.docs)
  /\ run' = [run EXCEPT !.idx = @ + 1,
                        !.candidates = Append(@, Candidate(run.kind, run.docs[run.idx + 1],
                                                           run.period))]
  /\ UNCHANGED <<storeVars, ops, before, runsLeft, hist, lastSave, auxVars>>

\* A snapshot lookup of the iteration rejects (part_009 80, 86, 100;
\* weeklyAggregate.js 74, 90). Neither loop has a try/catch: the rejection
\* leaves createMonthly / aggregateWeek (part_009 123: process.exit(1);
\* part_007 17-19: status 500).
LookupFails ==
  /\ run.pc = "eval"
  /\ run.idx < Len(run.docs)
  /\ run' = [Ended(run) EXCEPT !.pc = "failed", !.failedLookup = run.docs[run.idx + 1].uid]
  /\ UNCHANGED <<storeVars, ops, before, runsLeft, hist, lastSave, auxVars>>

\* part_009 113-114 / weeklyAggregate.js 101-102: after the loop, rank in
\* memory and request the final write
RankCandidates ==
  /\ run.pc = "eval"
  /\ run.idx = Len(run.docs)
  /\ run' = [run EXCEPT !.pc = "write", !.top = TopEntries(run.candidates, run.topN)]
  /\ UNCHANGED <<storeVars, ops, before, runsLeft, hist, lastSave, auxVars>>

\* The document of the leaderboard snapshot the run writes.
Board ==
  IF run.kind = "monthly" THEN MonthlyBoard(run.period, run.top, now)
  ELSE WeeklyBoard(run.period, run.top, now)

\* part_009 116-117 ref.set(..., {merge: false}); weeklyAggregate.js 105-129:
\* one batch of the per-user weekly documents and the leaderboard snapshot,
\* committed atomically
CommitWrite ==
  /\ run.pc = "write"
  /\ LET slot == <<run.kind, run.period>>
     IN /\ leaderboards' = [leaderboards EXCEPT ![slot] = SetReplace(@, Board)]
        /\ hist' = [hist EXCEPT ![slot] =
                      Append(@, [topN |-> run.topN, fake |-> FALSE, doc |-> Board])]
  /\ userWeekly' =
       IF run.kind = "weekly"
       THEN [u \in Uids |->
               IF \E i \in 1..Len(run.candidates) : run.candidates[i].uid = u
               THEN LET c == run.candidates[CHOOSE i \in 1..Len(run.candidates) :
                                              run.candidates[i].uid = u]
                    IN [userWeekly[u] EXCEPT ![run.period] =
                          SetReplace(@, UserWeeklyDoc(run.period, c, now))]
               ELSE userWeekly[u]]
       ELSE userWeekly
  /\ now' = now + 1
  /\ run' = [Ended(run) EXCEPT !.pc = "done"]
  /\ UNCHANGED <<users, dailyPoints, listOrder, ops, before, runsLeft, lastSave, auxVars>>

\* part_009 44-57: fake mode writes topN generated entries
FakeWrite(seed) ==
  /\ run.pc = "fake"
  /\ LET slot == <<run.kind, run.period>>
         top == FakeTop(run.topN, seed)
         doc == FakeBoard(run.period, top, now)
     IN /\ leaderboards' = [leaderboards EXCEPT ![slot] = SetReplace(@, doc)]
        /\ hist' = [hist EXCEPT ![slot] =
                      Append(@, [topN |-> run.topN, fake |-> TRUE, doc |-> doc])]
        /\ run' = [Ended(run) EXCEPT !.pc = "done"]
  /\ now' = now + 1
  /\ UNCHANGED <<users, dailyPoints, listOrder, userWeekly, ops, before, runsLeft, lastSave, auxVars>>

\* The invocation ends before its write is committed: the process is
\* stopped, or the listing or the write is rejected by the store.
Abort ==
  /\ Running
  /\ run' = [Ended(run) EXCEPT !.pc = "failed"]
  /\ UNCHANGED <<storeVars, ops, before, runsLeft, hist, lastSave, auxVars>>

\* The snapshot stores Init draws from: at most MaxSnaps documents, as
\* saveDailyPoints writes them (document id = date field).
CounterValues == {0, 2}
SnapPoints == {0, 1, 2}
SnapItems == {0, 1}
Cells == {C \in SUBSET (Uids \X Days) : Cardinality(C) <= MaxSnaps}
StoreOf(C, f) ==
  [u \in Uids |-> [d \in Days |->
     IF <<u, d>> \in C
     THEN DailyDoc(d, f[<<u, d>>].points, f[<<u, d>>].itemsRecycled, 0)
     ELSE NoDoc]]

\* Two sample stores for the behaviours with reruns: no snapshot at all, and
\* account 1 with one snapshot in each period, the later one lower.
RerunStores ==
  {EmptyDaily,
   StoreOf({<<1, 2>>, <<1, 3>>},
           [c \in {<<1, 2>>, <<1, 3>>} |->
              [points |-> IF c[2] = 2 THEN 2 ELSE 1, itemsRecycled |-> 1]])}

InitStore(runs) ==
  /\ users \in [Uids -> [points : CounterValues, itemsRecycled : {0}]]
  /\ before = users
  /\ listOrder \in Perms
  /\ leaderboards = EmptyBoards
  /\ userWeekly = EmptyWeekly
  /\ now = 1
  /\ ops = [o \in 1..NumAwards |-> IdleOp]
  /\ run = IdleRun
  /\ runsLeft = runs
  /\ hist = [s \in Slots |-> <<>>]
  /\ lastSave = NoSave
  /\ InitAux

InitBuilder ==
  /\ dailyPoints \in RerunStores
  /\ InitStore(MaxRuns)

\* Every store of at most MaxSnaps snapshots, and one invocation.
InitGain ==
  /\ \E C \in Cells : \E f \in [C -> [points : SnapPoints, itemsRecycled : SnapItems]] :
        dailyPoints = StoreOf(C, f)
  /\ InitStore(1)

NextBuilder ==
  \/ \E k \in Kinds, p \in Periods, n \in TopNs, f \in BOOLEAN : StartRun(k, p, n, f)
  \/ ListUsers
  \/ EvaluateAccount
  \/ LookupFails
  \/ RankCandidates
  \/ CommitWrite
  \/ \E seed \in FakeSeeds : FakeWrite(seed)
  \/ Abort

\* Reruns over a sample store.
SpecBuilder == InitBuilder /\ [][NextBuilder]_vars

\* One invocation over every store of at most MaxSnaps snapshots.
SpecGain == InitGain /\ [][NextBuilder]_vars

(***************************************************************************)
(* WindowDeltaEngine, per-day form: the weekly chart of PointsLeaderboard  *)
(***************************************************************************)
\* db.ts 43-52 getUserWeeklyPoints: the days + 1 latest snapshots by date
\* (orderBy date desc, limit days + 1), as the set of their days
WeeklyPointDays(u, days) ==
  LET D == {d \in Days : Exists(dailyPoints[u][d])}
  IN {d \in D : Cardinality({e \in D : dailyPoints[u][e].date > dailyPoints[u][d].date})
                  < days + 1}

\* PointsLeaderboard.tsx 692-698: date -> cumulative points of the fetched docs
AvailableDates(u) == {dailyPoints[u][d].date : d \in WeeklyPointDays(u, ChartDays)}
Cumulative(u, date) ==
  dailyPoints[u][CHOOSE d \in WeeklyPointDays(u, ChartDays) : dailyPoints[u][d].date = date].points

\* 701-715: null is 0 (no date of the model is 0)
LastOnOrBefore(u, target) ==
  LET S == {a \in AvailableDates(u) : a <= target}
  IN IF S = {} THEN 0 ELSE CHOOSE a \in S : \A b \in S : b <= a
LastBefore(u, target) ==
  LET S == {a \in AvailableDates(u) : a < target}
  IN IF S = {} THEN 0 ELSE CHOOSE a \in S : \A b \in S : b <= a

\* A per-day gain without the clamp at 0.
DayGainUnclamped(u, date) ==
  LET lastForDay == LastOnOrBefore(u, date)
      prevForDay == LastBefore(u, lastForDay)
  IN IF lastForDay = 0 THEN 0
     ELSE IF prevForDay = 0 THEN 0
     ELSE Cumulative(u, lastForDay) - Cumulative(u, prevForDay)

\* 721-735: the gain shown for one displayed date
DayGain(u, date) ==
  LET lastForDay == LastOnOrBefore(u, date)
      prevForDay == LastBefore(u, lastForDay)
      gain == Cumulative(u, lastForDay) - Cumulative(u, prevForDay)
  IN IF lastForDay = 0 THEN 0
     ELSE IF prevForDay = 0 THEN 0
     ELSE IF gain >= 0 THEN gain ELSE 0

\* 537-546 lastNDates and 721: the series for the last ChartDays days ending today
ChartData(u, today) == [i \in 1..ChartDays |-> DayGain(u, today - ChartDays + i)]

\* The days on which the chart may be opened.
Todays == 1..6

(***************************************************************************)
(* Claims                                                                  *)
(***************************************************************************)
\* C2: every computed gain is >= 0, also over a series with a recorded
\* decrease: each per-day gain of the chart series and the pointsGained of
\* every candidate of the monthly and weekly builders.
C2_GainsNonNegative ==
  /\ \A u \in Uids, t \in Todays : \A i \in 1..ChartDays : ChartData(u, t)[i] >= 0
  /\ \A i \in 1..Len(run.candidates) : run.candidates[i].pointsGained >= 0

\* C3: an account with exactly one snapshot has gain 0 for every window
\* ending on or after that snapshot's date, in the chart series and in the
\* builders' boundary-delta gain.
C3_FirstSnapshotZero ==
  \A u \in Uids :
    LET D == {d \in Days : Exists(dailyPoints[u][d])}
    IN Cardinality(D) = 1 =>
         LET first == dailyPoints[u][CHOOSE d \in D : TRUE].date
         IN /\ \A t \in Todays : t >= first =>
                  \A i \in 1..ChartDays : ChartData(u, t)[i] = 0
            /\ \A i \in 1..Len(run.candidates) :
                  (run.candidates[i].uid = u /\ PeriodEnd(run.period) >= first)
                     => run.candidates[i].pointsGained = 0

\* The entries of a stored snapshot that carry pointsGained.
Ranked(doc) == {i \in 1..Len(doc.top) : "pointsGained" \in DOMAIN doc.top[i]}

\* C4: in every leaderboard snapshot written by a builder, an entry of
\* smaller rank has pointsGained >= that of any entry of larger rank, and
\* entries with equal pointsGained appear in ascending uid order.
C4_RankingTotalOrder ==
  \A s \in Slots :
    Exists(leaderboards[s]) =>
      \A i, j \in Ranked(leaderboards[s]) :
        i < j => LET a == leaderboards[s].top[i]
                     b == leaderboards[s].top[j]
                 IN /\ a.pointsGained >= b.pointsGained
                    /\ a.pointsGained = b.pointsGained => a.uid < b.uid

\* C5: fail-soft per account. A run in which the snapshot lookup of an
\* account raised does not end as a failed run: the account is skipped and
\* the snapshot of the period is still written.
C5_FailSoft == run.failedLookup # 0 => run.pc # "failed"

\* C6: the only store write of a builder run is its final write, issued
\* after all accounts were evaluated and ranked in memory. While a run is in
\* progress, and after it has failed or was aborted, the stored leaderboard
\* snapshots (and the per-user weekly documents) are exactly as they were
\* when the run started; a run that completed changed only its own period.
C6_OnlyFinalWrite ==
  /\ run.pc \in {"list", "eval", "write", "fake", "failed"} =>
        /\ leaderboards = run.boardsAtStart
        /\ userWeekly = run.weeklyAtStart
  /\ run.pc = "write" => run.idx = NumUsers /\ Len(run.candidates) = NumUsers
  /\ run.pc = "done" =>
        \A s \in Slots : s # <<run.kind, run.period>> => leaderboards[s] = run.boardsAtStart[s]

\* A run failed after evaluating an account, with an earlier snapshot of its
\* period in the store.
C6_Witness ==
  /\ run.pc = "failed"
  /\ run.idx >= 1
  /\ Exists(leaderboards[<<run.kind, run.period>>])

\* A snapshot without its generatedAt.
SansGeneratedAt(doc) == [f \in DOMAIN doc \ {"generatedAt"} |-> doc[f]]

C8_ReplacesWholesale ==
  \A s \in Slots :
    /\ Len(hist[s]) = 0 => ~Exists(leaderboards[s])
    /\ Len(hist[s]) > 0 => leaderboards[s] = Last(hist[s]).doc

\* A real snapshot (with startDate, endDate and ranked entries) was replaced
\* by a rerun that wrote other fields and entries.
C8_Witness ==
  \E s \in Slots :
    /\ Len(hist[s]) = 2
    /\ DOMAIN hist[s][1].doc # DOMAIN hist[s][2].doc
    /\ hist[s][1].doc.top # hist[s][2].doc.top

Instants == 0..(4 * TicksPerDay - 1)

\* db.ts 27: d.toISOString().slice(0, 10)
ToDateId(instant) == (instant \div TicksPerDay) + 1

\* A write that adds the counters to the stored ones.
SetMergeAdding(old, new) ==
  IF ~Exists(old) THEN new
  ELSE [new EXCEPT !.points = @ + old.points, !.itemsRecycled = @ + old.itemsRecycled]

\* A write that replaces points but counts the items on top of the stored ones.
SetMergeCountingItems(old, new) ==
  IF ~Exists(old) THEN new
  ELSE [new EXCEPT !.itemsRecycled = @ + old.itemsRecycled]

\* db.ts 30-35: setDoc(ref, {date, points, itemsRecycled, generatedAt}, {merge: true})
SetDailyDoc(old, new) == SetMerge(old, new)

\* db.ts 24-36. date is an instant, or -1 when the argument is omitted
\* (line 25: the call's own clock reading is used).
SaveDailyPoints(uid, points, items, date) ==
  /\ lastSave.n < MaxSaves
  /\ LET d == IF date # -1 THEN date ELSE now
         dateStr == ToDateId(d)
     IN /\ dailyPoints' = [dailyPoints EXCEPT ![uid][dateStr] =
                             SetDailyDoc(@, DailyDoc(dateStr, points, items, now))]
        /\ lastSave' = [n |-> lastSave.n + 1, uid |-> uid, instant |-> d, points |-> points,
                        items |-> items, prev |-> dailyPoints[uid][dateStr]]
  /\ now' = now + 1
  /\ UNCHANGED <<users, listOrder, leaderboards, userWeekly, ops, before, run, runsLeft, hist,
                 auxVars>>

InitSnapshot ==
  /\ users \in [Uids -> [points : {0}, itemsRecycled : {0}]]
  /\ before = users
  /\ dailyPoints = EmptyDaily
  /\ listOrder = AscendingOrder
  /\ leaderboards = EmptyBoards
  /\ userWeekly = EmptyWeekly
  /\ now = 0
  /\ ops = [o \in 1..NumAwards |-> IdleOp]
  /\ run = IdleRun
  /\ runsLeft = 0
  /\ hist = [s \in Slots |-> <<>>]
  /\ lastSave = NoSave
  /\ InitAux

NextSnapshot ==
  \E u \in Uids, p \in SnapPoints, i \in SnapItems, date \in Instants \cup {-1} :
     SaveDailyPoints(u, p, i, date)

SpecSnapshot == InitSnapshot /\ [][NextSnapshot]_vars

\* C10: after saveDailyPoints(account, points, items, date), the snapshot
\* read for that account and the UTC day of date holds exactly (points,
\* items), whatever was stored for that day before, and it is the only
\* snapshot of the account with that date.
C10_WriteThenRead ==
  lastSave.n > 0 =>
    LET day == (lastSave.instant \div TicksPerDay) + 1
        doc == GetDailyPoint(lastSave.uid, day)
    IN /\ Exists(doc)
       /\ doc.points = lastSave.points
       /\ doc.itemsRecycled = lastSave.items
       /\ Cardinality({d \in Days : Exists(dailyPoints[lastSave.uid][d])
                                    /\ dailyPoints[lastSave.uid][d].date = day}) = 1

\* A repeat write for a day that already held a snapshot with other,
\* non-zero counters.
C10_Witness ==
  /\ lastSave.n > 0
  /\ Exists(lastSave.prev)
  /\ lastSave.prev.points > 0 /\ lastSave.prev.itemsRecycled > 0
  /\ lastSave.prev.points # lastSave.points

\* The stored snapshot state: per account and document key the date, points
\* and itemsRecycled (generatedAt, the time of the write, left out).
SnapshotState(store) ==
  [u \in DOMAIN store |-> [d \in DOMAIN store[u] |->
     IF Exists(store[u][d])
     THEN [date |-> store[u][d].date, points |-> store[u][d].points,
           itemsRecycled |-> store[u][d].itemsRecycled]
     ELSE NoDoc]]

\* Repeated saveDailyPoints calls with non-zero counters.
NextResave ==
  \E u \in Uids, p \in SnapPoints \ {0}, i \in SnapItems \ {0}, date \in Instants \cup {-1} :
     SaveDailyPoints(u, p, i, date)

SpecResave == InitSnapshot /\ [][NextResave]_vars

MaxBackdrop(daysCount) ==
  IF daysCount * BackdropPerDay > MinBackdrop THEN daysCount * BackdropPerDay ELSE MinBackdrop

\* line 97: Math.max(0, currentPoints - Math.floor(Math.random() * maxBackdrop))
StartPoints(currentPoints, back) == IF currentPoints - back > 0 THEN currentPoints - back ELSE 0

\* A threshold test that lets one write too many into a batch.
BatchFullLate(writeCount) == writeCount > WritesPerBatch

\* line 130: if (writeCount >= writesPerBatch)
BatchFull(writeCount) == writeCount >= WritesPerBatch

\* A final test that drops a batch that is not full.
FinalCommitOnlyWhenFull(writeCount) == writeCount >= WritesPerBatch

\* line 141: if (writeCount > 0)
FinalCommitNeeded(writeCount) == writeCount > 0

BackfillRunning == bf.pc \in {"list", "loop", "commit"}

\* The window of a run: the days dateStr - extraDays .. dateStr.
Window(dateStr, daysCount) == (dateStr - daysCount + 1)..dateStr

StartBackfill(dateStr, extraDays) ==
  /\ ~BackfillRunning
  /\ bf.left > 0
  /\ dateStr - extraDays >= 1
  /\ bf' = [IdleBackfill EXCEPT !.pc = "list", !.dateStr = dateStr, !.daysCount = extraDays + 1,
                                !.left = bf.left - 1, !.runs = bf.runs + 1, !.first = bf.first]
  /\ UNCHANGED <<storeVars, ops, before, run, runsLeft, hist, lastSave, call, adminToken, restVars>>

\* line 74: usersSnap = await db.collection('users').get()
BackfillList ==
  /\ bf.pc = "list"
  /\ bf' = [bf EXCEPT !.pc = IF Len(listOrder) = 0 THEN "done" ELSE "loop",
                      !.docs = [k \in 1..Len(listOrder) |->
                                  [uid |-> listOrder[k], points |-> users[listOrder[k]].points,
                                   itemsRecycled |-> users[listOrder[k]].itemsRecycled]],
                      !.u = 1, !.i = bf.daysCount - 1]
  /\ UNCHANGED <<storeVars, ops, before, run, runsLeft, hist, lastSave, call, adminToken, restVars>>

\* lines 88-137: one iteration of the inner loop (for the first day of an
\* account, lines 89-105 before it). back, inc and variation are the values
\* of Math.random() at lines 97, 103 and 118.
BackfillPlanWrite(back, inc, variation) ==
  /\ bf.pc = "loop"
  /\ LET userDoc == bf.docs[bf.u]
         firstDay == bf.i = bf.daysCount - 1
         startPoints == IF firstDay THEN StartPoints(userDoc.points, back) ELSE bf.startPoints
         cumulative == (IF firstDay THEN startPoints ELSE bf.cumulative) + inc
         write == [uid |-> userDoc.uid, day |-> bf.dateStr - bf.i, points |-> cumulative,
                   itemsRecycled |-> userDoc.itemsRecycled + variation]
         writeCount == bf.writeCount + 1
         lastOfUser == bf.i = 0
         u == IF lastOfUser THEN bf.u + 1 ELSE bf.u
         finished == u > Len(bf.docs)
     IN bf' = [bf EXCEPT !.startPoints = startPoints, !.cumulative = cumulative,
                         !.batch = Append(@, write), !.writeCount = writeCount,
                         !.u = u, !.i = IF lastOfUser THEN bf.daysCount - 1 ELSE bf.i - 1,
                         !.pc = IF BatchFull(writeCount) THEN "commit"
                                ELSE IF finished /\ FinalCommitNeeded(writeCount) THEN "commit"
                                ELSE IF finished THEN "done"
                                ELSE "loop"]
  /\ UNCHANGED <<storeVars, ops, before, run, runsLeft, hist, lastSave, call, adminToken, restVars>>

\* The store after the writes of a batch, each a set(ref, doc, {merge: true})
\* with generatedAt the server time of the commit.
AfterBatch(store, batch, at) ==
  [uid \in DOMAIN store |-> [d \in DOMAIN store[uid] |->
     LET K == {k \in 1..Len(batch) : batch[k].uid = uid /\ batch[k].day = d}
     IN IF K = {} THEN store[uid][d]
        ELSE LET w == batch[CHOOSE k \in K : \A j \in K : j <= k]
             IN SetMerge(store[uid][d], DailyDoc(d, w.points, w.itemsRecycled, at))]]

\* lines 131-136 and 142-144: the store commits the batch atomically
BackfillCommit ==
  /\ bf.pc = "commit"
  /\ dailyPoints' = AfterBatch(dailyPoints, bf.batch, now)
  /\ now' = now + 1
  /\ LET finished == bf.u > Len(bf.docs)
         keys == {<<bf.batch[k].uid, bf.batch[k].day>> : k \in 1..Len(bf.batch)}
     IN bf' = [bf EXCEPT !.pc = IF finished THEN "done" ELSE "loop",
                         !.batchCount = @ + 1,
                         !.committed = Append(@, [size |-> bf.writeCount, keys |-> keys]),
                         !.batch = <<>>, !.writeCount = 0,
                         !.first = IF finished /\ bf.runs = 1
                                   THEN <<[dateStr |-> bf.dateStr, daysCount |-> bf.daysCount,
                                           state |-> SnapshotState(dailyPoints')]>>
                                   ELSE @]
  /\ UNCHANGED <<users, listOrder, leaderboards, userWeekly, ops, before, run, runsLeft, hist,
                 lastSave, call, adminToken, restVars>>

\* lines 163-166: the listing or a commit is rejected; the process exits
\* with what it had committed before.
BackfillFails ==
  /\ bf.pc \in {"list", "commit"}
  /\ bf' = [bf EXCEPT !.pc = "failed", !.batch = <<>>, !.writeCount = 0]
  /\ UNCHANGED <<storeVars, ops, before, run, runsLeft, hist, lastSave, call, adminToken, restVars>>

\* The values drawn for Math.random() at lines 97 and 103: some of
\* 0..maxBackdrop-1 and of 0..MaxIncrement.
BackdropDraws == {0, 1}
IncrementDraws == {0, 1}
\* Two outcomes of the draws of one iteration (lines 103 and 118): the
\* increment and the variation of itemsRecycled.
IterationDraws == {<<0, 0>>, <<1, 1>>}
ExtraDays == 0..MaxExtraDays

\* The accounts and snapshots a backfill finds: no snapshot, or account 1
\* with the snapshots of days 2 and 3; bf.left invocations are allowed.
InitBackfillStore(runs) ==
  /\ users \in [Uids -> [points : CounterValues, itemsRecycled : {0}]]
  /\ before = users
  /\ dailyPoints \in RerunStores
  /\ listOrder = AscendingOrder
  /\ leaderboards = EmptyBoards
  /\ userWeekly = EmptyWeekly
  /\ now = 1
  /\ ops = [o \in 1..NumAwards |-> IdleOp]
  /\ run = IdleRun
  /\ runsLeft = 0
  /\ hist = [s \in Slots |-> <<>>]
  /\ lastSave = NoSave
  /\ bf = [IdleBackfill EXCEPT !.left = runs]
  /\ call = NoCall
  /\ adminToken = Undefined
  /\ InitRest

InitBackfill == InitBackfillStore(1)

NextBackfill ==
  \/ \E dateStr \in Days, extraDays \in ExtraDays : StartBackfill(dateStr, extraDays)
  \/ BackfillList
  \/ \E back \in BackdropDraws, inc \in IncrementDraws : BackfillPlanWrite(back, inc, 0)
  \/ BackfillCommit
  \/ BackfillFails

\* One backfill invocation.
SpecBackfill == InitBackfill /\ [][NextBackfill]_vars

\* C14: after a backfill run for target date D and lookback N has completed,
\* every account has a daily snapshot for every date of D - N .. D.
C14_NoGapsInWindow ==
  bf.pc = "done" =>
    \A uid \in DOMAIN users : \A d \in Window(bf.dateStr, bf.daysCount) :
       /\ Exists(dailyPoints[uid][d])
       /\ dailyPoints[uid][d].date = d

\* A run over a window of two or more days has completed for an account that
\* had no snapshot at all before it.
C14_Witness ==
  /\ bf.pc = "done"
  /\ bf.daysCount >= 2
  /\ \E uid \in DOMAIN users :
        \A d \in DOMAIN dailyPoints[uid] :
           Exists(dailyPoints[uid][d]) => dailyPoints[uid][d].generatedAt = now - 1

InitRebackfill == InitBackfillStore(2)

NextRebackfill ==
  \/ \E dateStr \in Days, extraDays \in ExtraDays : StartBackfill(dateStr, extraDays)
  \/ BackfillList
  \/ \E draw \in IterationDraws : BackfillPlanWrite(0, draw[1], draw[2])
  \/ BackfillCommit
  \/ BackfillFails

\* Two backfill invocations, nothing else touching the store.
SpecRebackfill == InitRebackfill /\ [][NextRebackfill]_vars

\* C12: a second backfill run over the window of the first, with the
\* counters unchanged in between, leaves every snapshot as the first run
\* left it (same points and itemsRecycled for every account and date).
C12_RerunChangesNothing ==
  (/\ bf.pc = "done"
   /\ bf.runs = 2
   /\ bf.first # <<>>
   /\ bf.first[1].dateStr = bf.dateStr
   /\ bf.first[1].daysCount = bf.daysCount)
    => SnapshotState(dailyPoints) = bf.first[1].state

(***************************************************************************)
(* The ledger as a whole: awards, snapshots of the counters and a backfill *)
(***************************************************************************)
\* New accounts, no snapshot yet, one backfill invocation allowed.
InitLedger ==
  /\ users = [u \in Uids |-> [points |-> 0, itemsRecycled |-> 0]]
  /\ before = users
  /\ dailyPoints = EmptyDaily
  /\ listOrder = AscendingOrder
  /\ leaderboards = EmptyBoards
  /\ userWeekly = EmptyWeekly
  /\ now = 0
  /\ ops = [o \in 1..NumAwards |-> IdleOp]
  /\ run = IdleRun
  /\ runsLeft = 0
  /\ hist = [s \in Slots |-> <<>>]
  /\ lastSave = NoSave
  /\ bf = [IdleBackfill EXCEPT !.left = 1]
  /\ call = NoCall
  /\ adminToken = Undefined
  /\ InitRest

\* The dates given to saveDailyPoints: none (today), or the first instant of
\* day 1 or of day 3.
GivenDates == {-1} \cup {(d - 1) * TicksPerDay : d \in {1, 3}}

NextLedger ==
  \/ \E o \in 1..NumAwards, u \in Uids : CallUpdateUserPoints(o, u, TRUE)
  \/ \E o \in 1..NumAwards : UpdateDocApply(o)
  \/ \E u \in Uids, date \in GivenDates :
        SaveDailyPoints(u, users[u].points, users[u].itemsRecycled, date)
  \/ \E dateStr \in Days, extraDays \in ExtraDays : StartBackfill(dateStr, extraDays)
  \/ BackfillList
  \/ \E inc \in IncrementDraws : BackfillPlanWrite(0, inc, 0)
  \/ BackfillCommit

SpecLedger == InitLedger /\ [][NextLedger]_vars

\* C13: for every account, the stored daily snapshots in ascending date
\* order have non-decreasing points.
C13_SnapshotsMonotone ==
  \A u \in Uids : \A d1, d2 \in Days :
    (d1 < d2 /\ Exists(dailyPoints[u][d1]) /\ Exists(dailyPoints[u][d2]))
      => dailyPoints[u][d1].points <= dailyPoints[u][d2].points

(***************************************************************************)
(* A backfill over a users collection large enough to fill a batch: with   *)
(* NumBatchAccounts accounts, the windows of 1 to 4 days ending on day 4   *)
(* plan less than, exactly and more than WritesPerBatch writes.            *)
(***************************************************************************)
BatchUids == 1..NumBatchAccounts

InitBatch ==
  /\ users = [u \in BatchUids |-> [points |-> 0, itemsRecycled |-> 0]]
  /\ before = users
  /\ dailyPoints = [u \in BatchUids |-> [d \in Days |-> NoDoc]]
  /\ listOrder = [k \in 1..NumBatchAccounts |-> k]
  /\ leaderboards = EmptyBoards
  /\ userWeekly = EmptyWeekly
  /\ now = 1
  /\ ops = [o \in 1..NumAwards |-> IdleOp]
  /\ run = IdleRun
  /\ runsLeft = 0
  /\ hist = [s \in Slots |-> <<>>]
  /\ lastSave = NoSave
  /\ bf = [IdleBackfill EXCEPT !.left = 1]
  /\ call = NoCall
  /\ adminToken = Undefined
  /\ InitRest

NextBatch ==
  \/ \E extraDays \in 0..3 : StartBackfill(4, extraDays)
  \/ BackfillList
  \/ BackfillPlanWrite(0, 1, 0)
  \/ BackfillCommit
  \/ BackfillFails

SpecBatch == InitBatch /\ [][NextBatch]_vars

\* The writes a run plans: one per listed account and day of the window.
PlannedWrites ==
  {<<bf.docs[k].uid, d>> : k \in 1..Len(bf.docs), d \in Window(bf.dateStr, bf.daysCount)}

CreateNewUserProfile(u) ==
  /\ users' = [users EXCEPT ![u] = SetMerge(@, [points |-> 0, itemsRecycled |-> 0])]
  /\ UNCHANGED <<dailyPoints, listOrder, leaderboards, userWeekly, now,
                 ops, before, run, runsLeft, hist, lastSave, auxVars>>

NextProfile ==
  \/ NextAward
  \/ \E u \in Uids : CreateNewUserProfile(u)

\* Profile creations and awards in any order.
SpecProfile == InitAward /\ [][NextProfile]_vars

\* C16: the counters of an account never decrease. In every step points and
\* itemsRecycled of every account are at least what they were before the
\* step, and they are never negative.
C16_CountersNeverDecrease ==
  /\ [](\A u \in Uids : users[u].points >= 0 /\ users[u].itemsRecycled >= 0)
  /\ [][\A u \in Uids : /\ users'[u].points >= users[u].points
                         /\ users'[u].itemsRecycled >= users[u].itemsRecycled]_vars

(***************************************************************************)
(* Aggregation triggers: POST /aggregate-weekly (part_007 6-21) and        *)
(* POST /aggregate-monthly (routes/analyze.js 105-126), which runs the     *)
(* script createMonthlyLeaderboard.js (part_009 121-123).                  *)
(* call.status is the HTTP status answered, 0 while the builder runs.      *)
(***************************************************************************)
\* The token values of the model: "s3cret" (the one the backend may be
\* configured with), "guess", the empty string and none. A value is truthy
\* when it is a non-empty string.
\* What a request carries as <<x-admin-token header, body.adminToken,
\* query.adminToken>>: nothing, one token in one place, several tokens.
Carried ==
  {<<Undefined, Undefined, Undefined>>, <<"", Undefined, Undefined>>,
   <<"s3cret", Undefined, Undefined>>, <<"guess", "s3cret", Undefined>>,
   <<Undefined, "s3cret", "guess">>, <<Undefined, Undefined, "guess">>,
   <<"", "", "s3cret">>, <<Undefined, "", "">>}
Truthy(x) == x # Undefined /\ x # ""

\* line 7: req.get('x-admin-token') || req.body?.adminToken || req.query?.adminToken
Presented(header, body, query) ==
  IF Truthy(header) THEN header ELSE IF Truthy(body) THEN body ELSE query

\* A test that forgets the case of an ADMIN_TOKEN that is not set.
ForbiddenUnlessEqual(env, token) == token # env

\* line 8: !process.env.ADMIN_TOKEN || token !== process.env.ADMIN_TOKEN
Forbidden(env, token) == ~Truthy(env) \/ token # env

\* The month arguments of the model. The year of the calendar has the
\* months 01 and 02: "Y-03" has the form YYYY-MM with a month out of range,
\* "Y-1" and "fake" do not have the form.
MonthArgs == {Undefined, "Y-01", "Y-02", "Y-03", "Y-1", "fake"}
InvalidMonthArgs == {"Y-03", "Y-1", "fake"}

\* part_009 32-37 monthIdFromArg: arg when it matches /^\d{4}-\d{2}$/,
\* else the month before the current one. A monthId is the number of its
\* month; Date.UTC rolls a month beyond the year over into the next year,
\* which PeriodStart and PeriodEnd do for month 3.
MonthIdFromArg(arg, prevMonth) ==
  IF arg = "Y-01" THEN 1
  ELSE IF arg = "Y-02" THEN 2
  ELSE IF arg = "Y-03" THEN 3
  ELSE prevMonth

\* part_009 42: process.argv.includes('fake') || process.env.FAKE_LEADERBOARD === '1'
FakeMode(arg, fakeEnv) == arg = "fake" \/ fakeEnv

\* The builder invocation as it is at its first await.
NewRun(kind, period, topN, fake) ==
  [IdleRun EXCEPT !.pc = IF fake THEN "fake" ELSE "list",
                  !.kind = kind, !.period = period, !.topN = topN, !.fake = fake,
                  !.boardsAtStart = leaderboards, !.weeklyAtStart = userWeekly]

\* part_007 6-15: the request up to the await of aggregateWeek. period is
\* the week of req.body.baseDate (of yesterday when it is not given).
PostAggregateWeekly(header, body, query, period, topN) ==
  /\ call.n < MaxRuns
  /\ LET token == Presented(header, body, query)
         rejected == Forbidden(adminToken, token)
     IN /\ ~rejected => ~Running
        /\ call' = [n |-> call.n + 1, route |-> "aggregate-weekly", token |-> token,
                    month |-> Undefined, status |-> IF rejected THEN 403 ELSE 0]
        /\ run' = IF rejected THEN run ELSE NewRun("weekly", period, topN, FALSE)
  /\ UNCHANGED <<storeVars, ops, before, runsLeft, hist, lastSave, bf, adminToken, restVars>>

\* routes/analyze.js 105-115 and part_009 121-123, 39-43: the request up to
\* the first await of the script. prevMonth is the month before the one the
\* clock shows, fakeEnv is FAKE_LEADERBOARD === '1'.
PostAggregateMonthly(header, body, query, month, prevMonth, fakeEnv) ==
  /\ call.n < MaxRuns
  /\ LET token == Presented(header, body, query)
         rejected == Forbidden(adminToken, token)
         arg == IF Truthy(month) THEN month ELSE Undefined
     IN /\ ~rejected => ~Running
        /\ call' = [n |-> call.n + 1, route |-> "aggregate-monthly", token |-> token,
                    month |-> month, status |-> IF rejected THEN 403 ELSE 0]
        /\ run' = IF rejected THEN run
                  ELSE NewRun("monthly", MonthIdFromArg(arg, prevMonth), DefaultTopN,
                              FakeMode(arg, fakeEnv))
  /\ UNCHANGED <<storeVars, ops, before, runsLeft, hist, lastSave, bf, adminToken, restVars>>

\* part_007 16-19, routes/analyze.js 115-121: the answer once the builder
\* has returned or thrown
Respond ==
  /\ call.n > 0 /\ call.status = 0
  /\ run.pc \in {"done", "failed"}
  /\ call' = [call EXCEPT !.status = IF run.pc = "done" THEN 200 ELSE 500]
  /\ UNCHANGED <<storeVars, ops, before, run, runsLeft, hist, lastSave, bf, adminToken, restVars>>

\* The month ids a snapshot can be written for: the months of the calendar
\* and the month beyond the year.
TriggerSlots == Slots \cup {<<"monthly", 3>>}

InitTrigger ==
  /\ users = [u \in Uids |-> [points |-> 2, itemsRecycled |-> 0]]
  /\ before = users
  /\ dailyPoints \in RerunStores \ {EmptyDaily}
  /\ listOrder = AscendingOrder
  /\ leaderboards = [s \in TriggerSlots |-> NoDoc]
  /\ userWeekly = EmptyWeekly
  /\ now = 1
  /\ ops = [o \in 1..NumAwards |-> IdleOp]
  /\ run = IdleRun
  /\ runsLeft = 0
  /\ hist = [s \in TriggerSlots |-> <<>>]
  /\ lastSave = NoSave
  /\ bf = IdleBackfill
  /\ call = NoCall
  /\ adminToken \in {Undefined, "", "s3cret"}
  /\ InitRest

NextTrigger ==
  \/ \E c \in Carried, period \in Periods, topN \in TopNs :
        PostAggregateWeekly(c[1], c[2], c[3], period, topN)
  \/ \E c \in Carried, month \in MonthArgs, prevMonth \in Periods, fakeEnv \in BOOLEAN :
        PostAggregateMonthly(c[1], c[2], c[3], month, prevMonth, fakeEnv)
  \/ Respond
  \/ ListUsers
  \/ EvaluateAccount
  \/ LookupFails
  \/ RankCandidates
  \/ CommitWrite
  \/ \E seed \in FakeSeeds : FakeWrite(seed)
  \/ Abort

SpecTrigger == InitTrigger /\ [][NextTrigger]_vars

\* C17: a request to an aggregation trigger starts the builder only when
\* the token it presents equals the configured ADMIN_TOKEN. A request whose
\* token is missing or different, or that arrives when ADMIN_TOKEN is not
\* set, is answered 403, starts no builder and changes no stored state.
C17_TokenGate ==
  [][call'.n # call.n =>
       LET authorized == adminToken # Undefined /\ call'.token = adminToken
       IN /\ run' # run => authorized
          /\ ~authorized => /\ call'.status = 403
                            /\ run' = run
                            /\ UNCHANGED <<storeVars, hist>>]_vars

\* ADMIN_TOKEN is not set and a request without any token was answered 403
\* after no builder had run.
C17_Witness ==
  /\ adminToken = Undefined
  /\ call.n > 0
  /\ call.token = Undefined
  /\ call.status = 403
  /\ run = IdleRun

\* C18: a malformed or out-of-range periodId given to the monthly builder
\* is reported as an error and no aggregation job starts: the step that
\* takes such a request starts no builder and answers with an error status.
C18_InvalidPeriodRejected ==
  [][(call'.n # call.n /\ call'.route = "aggregate-monthly"
                       /\ call'.month \in InvalidMonthArgs)
       => /\ run' = run
          /\ call'.status >= 400]_vars

(***************************************************************************)
(* Scenarios of the boundary-delta gain of the builders                    *)
(***************************************************************************)
\* Account 1 has exactly two snapshots, on the first and on the last day of
\* period 2 (days 3 and 4), with points 100 and 170.
ScenarioStore ==
  StoreOf({<<1, 3>>, <<1, 4>>},
          [c \in {<<1, 3>>, <<1, 4>>} |->
             [points |-> IF c[2] = 3 THEN 100 ELSE 170, itemsRecycled |-> 0]])

InitScenario ==
  /\ dailyPoints = ScenarioStore
  /\ InitStore(1)

\* One builder invocation over the scenario's snapshots.
SpecScenario == InitScenario /\ [][NextBuilder]_vars

\* C19: over the window from the day of the snapshot with 100 points to the
\* day of the snapshot with 170 points, the builder's gain of the account is 70.
C19_ScenarioGain70 ==
  run.period = 2 =>
    \A i \in 1..Len(run.candidates) :
       run.candidates[i].uid = 1 => run.candidates[i].pointsGained = 70

\* C20: an account with no snapshot inside the period has gain 0 in the
\* builder, whatever its current points.
C20_NoSnapshotZeroGain ==
  \A i \in 1..Len(run.candidates) :
     SnapDays(run.candidates[i].uid, PeriodStart(run.period), PeriodEnd(run.period)) = {}
       => run.candidates[i].pointsGained = 0

(***************************************************************************)
(* Leaderboard reader: useMonthlyLeaderboard (PointsLeaderboard.tsx        *)
(* 562-669). currentMonthId is taken from the clock of the device (new     *)
(* Date()), prevMonthId is the month before it. reader.pc:                 *)
(*   "current"   getDoc of the current month's snapshot awaited            *)
(*   "previous"  getDoc of the previous month's snapshot awaited           *)
(*   "fallback"  the client-side ranking is being computed                 *)
(*   "loaded"    setData was called; "failed": the catch block was taken   *)
(***************************************************************************)
\* leaderboards/monthly/snapshots/{monthId}; no snapshot is stored for a
\* month before the calendar of the model
MonthlySnapshot(p) == IF p \in Periods THEN leaderboards[<<"monthly", p>>] ELSE NoDoc

\* 595-603: top.map((t, idx) => ...); rank: t.rank || idx + 1,
\* points: t.pointsGained ?? t.points ?? 0
MapTop(top) ==
  [idx \in 1..Len(top) |->
     LET t == top[idx]
     IN [uid |-> t.uid,
         rank |-> IF "rank" \notin DOMAIN t \/ t.rank = 0 THEN idx ELSE t.rank,
         points |-> IF "pointsGained" \in DOMAIN t THEN t.pointsGained
                    ELSE IF "points" \in DOMAIN t THEN t.points ELSE 0,
         itemsRecycled |-> IF "itemsRecycled" \in DOMAIN t THEN t.itemsRecycled ELSE 0]]

\* 619, 627, 634-637: the accounts the fallback leaves out
FallbackSkips(u, month) ==
  \/ users[u].points = 0 /\ users[u].itemsRecycled = 0
  \/ SnapDays(u, PeriodStart(month), PeriodEnd(month)) = {}

\* 622-633, 641: the candidate of one account; docs sorted by id, the gain
\* is the last document's points minus the first document's points
FallbackCandidate(u, month) ==
  LET inMonth == SnapDays(u, PeriodStart(month), PeriodEnd(month))
      firstId == CHOOSE d \in inMonth : \A e \in inMonth : d <= e
      lastId == CHOOSE d \in inMonth : \A e \in inMonth : e <= d
      firstPoints == dailyPoints[u][firstId].points
      lastPoints == dailyPoints[u][lastId].points
  IN [uid |-> u, rank |-> 0, points |-> lastPoints - firstPoints,
      itemsRecycled |-> SetSum(inMonth, [d \in Days |-> dailyPoints[u][d].itemsRecycled])]

\* 616-642: the loop over allUsersSnap.docs
RECURSIVE FallbackCandidates(_, _)
FallbackCandidates(order, month) ==
  IF order = <<>> THEN <<>>
  ELSE LET rest == FallbackCandidates(SubSeq(order, 1, Len(order) - 1), month)
           u == Last(order)
       IN IF FallbackSkips(u, month) THEN rest
          ELSE Append(rest, FallbackCandidate(u, month))

\* 645: candidates.sort((a,b) => b.points - a.points), a stable sort
RECURSIVE InsertByPoints(_, _)
InsertByPoints(c, s) ==
  IF s = <<>> THEN <<c>>
  ELSE IF Head(s).points >= c.points
       THEN <<Head(s)>> \o InsertByPoints(c, Tail(s))
       ELSE <<c>> \o s

RECURSIVE SortByPointsDesc(_)
SortByPointsDesc(s) ==
  IF s = <<>> THEN <<>>
  ELSE InsertByPoints(Last(s), SortByPointsDesc(SubSeq(s, 1, Len(s) - 1)))

\* 645-646: slice(0, 10), rank = i + 1
FallbackTop(month) ==
  LET sorted == Slice(SortByPointsDesc(FallbackCandidates(listOrder, month)), 10)
  IN [i \in 1..Len(sorted) |-> [sorted[i] EXCEPT !.rank = i]]

Fetching == reader.pc \in {"current", "previous", "fallback"}

\* 659, 664-666: fetchMonthly is called on mount and by refresh
FetchMonthly(month) ==
  /\ ~Fetching
  /\ reader' = [reader EXCEPT !.pc = "current", !.month = month]
  /\ UNCHANGED <<storeVars, ops, before, run, runsLeft, hist, lastSave,
                 bf, call, adminToken, chart, other, scans, scanOps>>

\* A reader that computes the ranking itself as soon as the current month
\* has no snapshot.
GetCurrentSnapshotOnly ==
  /\ reader.pc = "current"
  /\ LET docSnap == MonthlySnapshot(reader.month)
     IN reader' = IF Exists(docSnap)
                  THEN [reader EXCEPT !.pc = "loaded", !.source = "current",
                                      !.data = MapTop(docSnap.top)]
                  ELSE [reader EXCEPT !.pc = "fallback"]
  /\ UNCHANGED <<storeVars, ops, before, run, runsLeft, hist, lastSave,
                 bf, call, adminToken, chart, other, scans, scanOps>>

\* 583-584, 587, 592-604: the snapshot of the current month
GetCurrentSnapshot ==
  /\ reader.pc = "current"
  /\ LET docSnap == MonthlySnapshot(reader.month)
     IN reader' = IF Exists(docSnap)
                  THEN [reader EXCEPT !.pc = "loaded", !.source = "current",
                                      !.data = MapTop(docSnap.top)]
                  ELSE [reader EXCEPT !.pc = "previous"]
  /\ UNCHANGED <<storeVars, ops, before, run, runsLeft, hist, lastSave,
                 bf, call, adminToken, chart, other, scans, scanOps>>

\* 588-589, 592-604: the snapshot of the previous month
GetPreviousSnapshot ==
  /\ reader.pc = "previous"
  /\ LET docSnap == MonthlySnapshot(reader.month - 1)
     IN reader' = IF Exists(docSnap)
                  THEN [reader EXCEPT !.pc = "loaded", !.source = "previous",
                                      !.data = MapTop(docSnap.top)]
                  ELSE [reader EXCEPT !.pc = "fallback"]
  /\ UNCHANGED <<storeVars, ops, before, run, runsLeft, hist, lastSave,
                 bf, call, adminToken, chart, other, scans, scanOps>>

\* 605-648: the ranking computed on the client
ComputeFallback ==
  /\ reader.pc = "fallback"
  /\ reader' = [reader EXCEPT !.pc = "loaded", !.source = "fallback",
                              !.data = FallbackTop(reader.month)]
  /\ UNCHANGED <<storeVars, ops, before, run, runsLeft, hist, lastSave,
                 bf, call, adminToken, chart, other, scans, scanOps>>

\* 649-651: a read rejects; the error is logged and data is left as it was
FetchFails ==
  /\ Fetching
  /\ reader' = [reader EXCEPT !.pc = "failed"]
  /\ UNCHANGED <<storeVars, ops, before, run, runsLeft, hist, lastSave,
                 bf, call, adminToken, chart, other, scans, scanOps>>

\* The snapshot createMonthly writes over the store as it is (real mode).
BuiltMonthly(p, at) ==
  MonthlyBoard(p, TopEntries([i \in 1..NumUsers |->
                                MonthlyCandidate([uid |-> listOrder[i],
                                                  points |-> users[listOrder[i]].points], p)],
                             DefaultTopN), at)

\* The store after earlier builder invocations: each month has no snapshot,
\* the snapshot of a real run, or the snapshot of a fake run.
InitReader ==
  /\ users \in [Uids -> [points : CounterValues, itemsRecycled : {0}]]
  /\ before = users
  /\ listOrder = AscendingOrder
  /\ dailyPoints \in RerunStores
  /\ \E written \in [Periods -> {"none", "real", "fake"}] :
       /\ leaderboards =
            [s \in Slots |->
               IF s[1] = "weekly" \/ written[s[2]] = "none" THEN NoDoc
               ELSE IF written[s[2]] = "real" THEN BuiltMonthly(s[2], 0)
               ELSE FakeBoard(s[2], FakeTop(DefaultTopN, 0), 0)]
       /\ hist =
            [s \in Slots |->
               IF s[1] = "weekly" \/ written[s[2]] = "none" THEN <<>>
               ELSE <<[topN |-> DefaultTopN, fake |-> written[s[2]] = "fake",
                       doc |-> leaderboards[s]]>>]
  /\ userWeekly = EmptyWeekly
  /\ now = 1
  /\ ops = [o \in 1..NumAwards |-> IdleOp]
  /\ run = IdleRun
  /\ runsLeft = 1
  /\ lastSave = NoSave
  /\ InitAux

NextReader ==
  \/ \E month \in Periods : FetchMonthly(month)
  \/ GetCurrentSnapshot
  \/ GetPreviousSnapshot
  \/ ComputeFallback
  \/ FetchFails
  \/ \E p \in Periods, f \in BOOLEAN : StartRun("monthly", p, DefaultTopN, f)
  \/ ListUsers
  \/ EvaluateAccount
  \/ RankCandidates
  \/ CommitWrite
  \/ FakeWrite(0)

\* The reader, with one invocation of createMonthly in between.
SpecReader == InitReader /\ [][NextReader]_vars

RECURSIVE DescByDate(_, _)
DescByDate(u, S) ==
  IF S = {} THEN <<>>
  ELSE LET d == CHOOSE x \in S : \A e \in S : dailyPoints[u][e].date <= dailyPoints[u][x].date
       IN <<dailyPoints[u][d]>> \o DescByDate(u, S \ {d})

\* items.reverse()
Reverse(s) == [i \in 1..Len(s) |-> s[Len(s) + 1 - i]]

\* A query that returns the snapshots as the store orders them, latest first.
GetUserWeeklyPointsLatestFirst(u, days) ==
  Slice(DescByDate(u, {d \in Days : Exists(dailyPoints[u][d])}), days + 1)

\* db.ts 43-52: query(colRef, orderBy("date", "desc"), limit(days + 1)), then
\* items.reverse()
GetUserWeeklyPoints(u, days) ==
  Reverse(Slice(DescByDate(u, {d \in Days : Exists(dailyPoints[u][d])}), days + 1))

\* PointsLeaderboard.tsx 537-546 lastNDates(n, endDate): the n days ending
\* with endDate, oldest first
LastNDates(n, endDate) == [k \in 1..n |-> endDate - (n - k)]

\* The values of the days argument the function is called with.
DaysArgs == {0, 1, 2, ChartDays}

\* A call of getUserWeeklyPoints(uid, days)
CallGetUserWeeklyPoints(u, days) ==
  /\ chart' = [NoChart EXCEPT !.op = "get", !.uid = u, !.days = days,
                              !.docs = GetUserWeeklyPoints(u, days)]
  /\ UNCHANGED <<storeVars, ops, before, run, runsLeft, hist, lastSave,
                 bf, call, adminToken, reader, other, scans, scanOps>>

\* PointsLeaderboard.tsx 686-737: load on the day today (new Date() of
\* lastNDates) for the signed-in account
Load(u, today) ==
  /\ chart' = [op |-> "load", uid |-> u, days |-> ChartDays, today |-> today,
               docs |-> GetUserWeeklyPoints(u, ChartDays),
               dates |-> LastNDates(ChartDays, today),
               data |-> ChartData(u, today)]
  /\ UNCHANGED <<storeVars, ops, before, run, runsLeft, hist, lastSave,
                 bf, call, adminToken, reader, other, scans, scanOps>>

\* One account has a series of snapshots over the calendar, each day without
\* a snapshot or with one of any recorded value; the other accounts have none.
InitChart ==
  /\ \E a \in Uids : \E f \in [Days -> {-1} \cup SnapPoints] :
       dailyPoints = [u \in Uids |-> [d \in Days |->
                        IF u = a /\ f[d] >= 0 THEN DailyDoc(d, f[d], 0, 0) ELSE NoDoc]]
  /\ users \in [Uids -> [points : {2}, itemsRecycled : {0}]]
  /\ before = users
  /\ listOrder = AscendingOrder
  /\ leaderboards = EmptyBoards
  /\ userWeekly = EmptyWeekly
  /\ now = 1
  /\ ops = [o \in 1..NumAwards |-> IdleOp]
  /\ run = IdleRun
  /\ runsLeft = 0
  /\ hist = [s \in Slots |-> <<>>]
  /\ lastSave = NoSave
  /\ InitAux

NextChart ==
  \/ \E u \in Uids, days \in DaysArgs : CallGetUserWeeklyPoints(u, days)
  \/ \E u \in Uids, today \in Todays : Load(u, today)

SpecChart == InitChart /\ [][NextChart]_vars

C23_PerDayChartRule ==
  chart.op = "load" =>
    /\ Len(chart.data) = ChartDays
    /\ Len(chart.dates) = ChartDays
    /\ chart.dates[ChartDays] = chart.today
    /\ \A i \in 1..(ChartDays - 1) : chart.dates[i + 1] = chart.dates[i] + 1
    /\ \A i \in 1..ChartDays :
         LET d == chart.dates[i]
             upTo == {k \in 1..Len(chart.docs) : chart.docs[k].date <= d}
             last == CHOOSE k \in upTo : \A j \in upTo : chart.docs[j].date <= chart.docs[k].date
             earlier == {k \in 1..Len(chart.docs) : chart.docs[k].date < chart.docs[last].date}
             prev == CHOOSE k \in earlier :
                       \A j \in earlier : chart.docs[j].date <= chart.docs[k].date
             diff == chart.docs[last].points - chart.docs[prev].points
         IN chart.data[i] = IF upTo = {} THEN 0
                            ELSE IF earlier = {} THEN 0
                            ELSE IF diff > 0 THEN diff ELSE 0

\* A chart with a day before the first snapshot, the day of the first
\* snapshot, a day with a positive gain and a day with a recorded decrease.
C23_Witness ==
  /\ chart.op = "load"
  /\ chart.today = 4
  /\ Len(chart.docs) = 4
  /\ chart.docs[2].points > chart.docs[1].points
  /\ chart.docs[3].points < chart.docs[2].points
  /\ chart.data[3] = 0
  /\ chart.data[4] = 0
  /\ chart.data[5] = chart.docs[2].points - chart.docs[1].points
  /\ chart.data[6] = 0

\* C24: a displayed day that has no snapshot of its own gets a zero gain; a
\* gain measured between two earlier snapshots is not shown again on a later
\* day without a snapshot.
C24_GapDayZero ==
  chart.op = "load" =>
    \A i \in 1..ChartDays :
      (\A k \in 1..Len(chart.docs) : chart.docs[k].date # chart.dates[i]) => chart.data[i] = 0

\* C25: in the monthly builder, for every account, pointsStart is the points
\* of the latest snapshot dated strictly before periodStart, or 0 when there
\* is none; pointsEnd is the points of the latest snapshot dated <=
\* periodEnd, and the account's counter is used only when no snapshot dated
\* <= periodEnd exists.
C25_BoundaryDeltaMonthly ==
  run.kind = "monthly" =>
    \A i \in 1..Len(run.candidates) :
      LET c == run.candidates[i]
          earlier == SnapDays(c.uid, 0, PeriodStart(run.period) - 1)
          upToEnd == SnapDays(c.uid, 0, PeriodEnd(run.period))
      IN /\ c.pointsStart = IF earlier = {} THEN 0 ELSE LatestOf(c.uid, earlier).points
         /\ c.pointsEnd = IF upToEnd = {} THEN run.docs[i].points
                          ELSE LatestOf(c.uid, upToEnd).points

\* C26: in aggregateWeek, for every account with at least one snapshot in
\* the week, pointsStart is the points of the earliest snapshot of the week
\* and pointsEnd the points of the latest snapshot of the week, whatever the
\* values, an earliest snapshot of 0 points included.
C26_WeekFirstAndLast ==
  run.kind = "weekly" =>
    \A i \in 1..Len(run.candidates) :
      LET c == run.candidates[i]
          inWeek == {d \in PeriodStart(run.period)..PeriodEnd(run.period) :
                       Exists(GetDailyPoint(c.uid, d))}
          earliest == CHOOSE d \in inWeek : \A e \in inWeek : d <= e
          latest == CHOOSE d \in inWeek : \A e \in inWeek : e <= d
      IN inWeek # {} =>
           /\ c.pointsStart = dailyPoints[c.uid][earliest].points
           /\ c.pointsEnd = dailyPoints[c.uid][latest].points

\* The gain the builder of the slot computes for account u over the store.
GainOf(slot, u) ==
  Candidate(slot[1], [uid |-> u, points |-> users[u].points], slot[2]).pointsGained

\* Each account in at most one entry, and every account that is not listed
\* has a gain <= the pointsGained of the last entry.
TopNCorrect(slot, top) ==
  /\ \A i, j \in 1..Len(top) : i # j => top[i].uid # top[j].uid
  /\ \A u \in Uids :
       (\A i \in 1..Len(top) : top[i].uid # u) =>
         /\ Len(top) > 0
         /\ "pointsGained" \in DOMAIN Last(top)
         /\ GainOf(slot, u) <= Last(top).pointsGained

SwitchRun ==
  /\ run # other
  /\ run' = other
  /\ other' = run
  /\ UNCHANGED <<storeVars, ops, before, runsLeft, hist, lastSave,
                 bf, call, adminToken, reader, chart, scans, scanOps>>

\* Both invocations are for the same leaderboard snapshot.
SamePeriod(kind, period) ==
  \A r \in {run, other} : r.pc = "idle" \/ (r.kind = kind /\ r.period = period)

InitConcurrent ==
  /\ dailyPoints \in RerunStores
  /\ users \in [Uids -> [points : {2}, itemsRecycled : {0}]]
  /\ before = users
  /\ listOrder = AscendingOrder
  /\ leaderboards = EmptyBoards
  /\ userWeekly = EmptyWeekly
  /\ now = 1
  /\ ops = [o \in 1..NumAwards |-> IdleOp]
  /\ run = IdleRun
  /\ runsLeft = 2
  /\ hist = [s \in Slots |-> <<>>]
  /\ lastSave = NoSave
  /\ InitAux

\* The runs are for period 1, the period of the clock; the award and the
\* snapshot writes in between are those of account 1.
NextConcurrent ==
  \/ \E k \in Kinds, n \in TopNs, f \in BOOLEAN :
       SamePeriod(k, 1) /\ StartRun(k, 1, n, f)
  \/ SwitchRun
  \/ ListUsers
  \/ EvaluateAccount
  \/ LookupFails
  \/ RankCandidates
  \/ CommitWrite
  \/ FakeWrite(0)
  \/ CallUpdateUserPoints(1, 1, TRUE)
  \/ UpdateDocApply(1)
  \/ SaveDailyPoints(1, users[1].points, users[1].itemsRecycled, -1)

SpecConcurrent == InitConcurrent /\ [][NextConcurrent]_vars

BothEnded == run.pc \in {"done", "failed"} /\ other.pc \in {"done", "failed"}

\* C28: when two builder runs for the same periodId execute concurrently,
\* interleaved with counter increments and snapshot writes, the leaderboard
\* snapshot stored once both have finished is exactly the complete output
\* of one of the two runs, never a mixture of entries from both.
C28_OneRunsOutput ==
  BothEnded =>
    LET slot == <<run.kind, run.period>>
    IN /\ other.kind = run.kind /\ other.period = run.period
       /\ IF hist[slot] = <<>> THEN leaderboards[slot] = NoDoc
          ELSE \E k \in 1..Len(hist[slot]) : leaderboards[slot] = hist[slot][k].doc

\* Both runs started before either had written, an award and a snapshot
\* write fell between them, both wrote, and their outputs differ.
C28_Witness ==
  /\ BothEnded
  /\ run.kind = "weekly"
  /\ run.boardsAtStart = EmptyBoards
  /\ other.boardsAtStart = EmptyBoards
  /\ ops[1].pc = "ok"
  /\ lastSave.n > 0
  /\ LET slot == <<run.kind, run.period>>
     IN /\ Len(hist[slot]) = 2
        /\ Len(hist[slot][1].doc.top) = 2
        /\ Len(hist[slot][2].doc.top) = 1
        /\ hist[slot][1].doc.top[1].uid # hist[slot][2].doc.top[1].uid
        /\ leaderboards[slot] = hist[slot][2].doc

\* C29: the client-side fallback ranking of useMonthlyLeaderboard agrees
\* with createMonthly on the same accounts and snapshots: for the current
\* month both give every account the same pointsGained and produce the same
\* ordered top-10 list of accounts.
C29_FallbackAgreesWithBuilder ==
  (reader.pc = "loaded" /\ reader.source = "fallback") =>
    LET server == BuiltMonthly(reader.month, 0).top
    IN /\ Len(reader.data) = Len(server)
       /\ \A i \in 1..Len(server) :
            /\ reader.data[i].uid = server[i].uid
            /\ reader.data[i].points = server[i].pointsGained

(***************************************************************************)
(* Scan award: analyzeWithGemini (PhotoAnalysis.tsx 283-292) starts        *)
(* updateUserPoints and saveScanRecord together (Promise.all); each sends  *)
(* its own write and catches its own rejection.                            *)
(***************************************************************************)
\* 283-291: both calls run up to their await; the two writes are in flight
AnalyzeWithGemini(o, u, recyclable) ==
  /\ ops[o].pc = "idle"
  /\ scanOps[o].pc = "idle"
  /\ ops' = [ops EXCEPT ![o] = [pc |-> "sent", uid |-> u, recyclable |-> recyclable,
                                 data |-> UpdateData(recyclable, PointsEarned(recyclable))]]
  /\ scanOps' = [scanOps EXCEPT ![o] = [pc |-> "sent", uid |-> u, recyclable |-> recyclable,
                                         pointsEarned |-> PointsEarned(recyclable)]]
  /\ UNCHANGED <<storeVars, before, run, runsLeft, hist, lastSave,
                 bf, call, adminToken, reader, chart, other, scans>>

\* 187-197: addDoc(collection(db, "users", userId, "scans"), scanData)
AddDocApply(o) ==
  /\ scanOps[o].pc = "sent"
  /\ scans' = [scans EXCEPT ![scanOps[o].uid] =
                 Append(@, [recyclable |-> scanOps[o].recyclable,
                            pointsEarned |-> scanOps[o].pointsEarned, createdAt |-> now])]
  /\ scanOps' = [scanOps EXCEPT ![o].pc = "ok"]
  /\ now' = now + 1
  /\ UNCHANGED <<users, dailyPoints, listOrder, leaderboards, userWeekly,
                 ops, before, run, runsLeft, hist, lastSave,
                 bf, call, adminToken, reader, chart, other>>

\* 199-202: addDoc rejects; the error is caught and a toast is shown
AddDocReject(o) ==
  /\ scanOps[o].pc = "sent"
  /\ scanOps' = [scanOps EXCEPT ![o].pc = "failed"]
  /\ UNCHANGED <<storeVars, ops, before, run, runsLeft, hist, lastSave,
                 bf, call, adminToken, reader, chart, other, scans>>

\* PointsLeaderboard.tsx 69-93 useWeeklyProgress: the sum of pointsEarned
\* over the scan records read
RECURSIVE ScanTotal(_)
ScanTotal(records) ==
  IF records = <<>> THEN 0 ELSE Head(records).pointsEarned + ScanTotal(Tail(records))

\* New accounts (db.ts 4-14: points 0, itemsRecycled 0) without scans.
InitScan ==
  /\ users = [u \in Uids |-> [points |-> 0, itemsRecycled |-> 0]]
  /\ before = users
  /\ dailyPoints = EmptyDaily
  /\ listOrder = AscendingOrder
  /\ leaderboards = EmptyBoards
  /\ userWeekly = EmptyWeekly
  /\ now = 1
  /\ ops = [o \in 1..NumAwards |-> IdleOp]
  /\ run = IdleRun
  /\ runsLeft = 0
  /\ hist = [s \in Slots |-> <<>>]
  /\ lastSave = NoSave
  /\ InitAux

NextScan ==
  \E o \in 1..NumAwards :
    \/ \E u \in Uids, r \in BOOLEAN : AnalyzeWithGemini(o, u, r)
    \/ UpdateDocApply(o)
    \/ UpdateDocReject(o)
    \/ AddDocApply(o)
    \/ AddDocReject(o)

SpecScan == InitScan /\ [][NextScan]_vars

\* C30: after any sequence of completed scans, also ones in which the
\* counter update or the scan-record write fails, the account's cumulative
\* points equal the sum of pointsEarned over its stored scan records.
C30_CounterMatchesScans ==
  (\A o \in 1..NumAwards : ops[o].pc # "sent" /\ scanOps[o].pc # "sent") =>
    \A u \in Uids : users[u].points = ScanTotal(scans[u])

====
